---- MODULE Spec2Model ----
(***************************************************************************)
(* Model of zoo's cell synchroniser (zoo/cli/cell.py) and of the record    *)
(* digest it is built on (zoo/hash.py).                                    *)
(*                                                                         *)
(* JSON values are tagged records:                                         *)
(*   [t |-> "num", n |-> 1]            a number                            *)
(*   [t |-> "str", s |-> <<49>>]       a string, as its code points        *)
(*   [t |-> "list", xs |-> <<...>>]    a sequence                          *)
(*   [t |-> "map", kv |-> <<...>>]     a mapping, as its (key, value)      *)
(*                                     items in insertion order            *)
(*   [t |-> "oid", n |-> 1]            a store-generated ObjectId          *)
(*   [t |-> "none"]                    Python's None                       *)
(* md5 is modelled as an injective function of the bytes fed to it: the    *)
(* digest of a byte stream is the stream itself.                           *)
(***************************************************************************)
EXTENDS Integers, Sequences, FiniteSets, TLC

(***************************************************************************)
(* Bounds of the model.                                                    *)
(***************************************************************************)
MaxListLen == 2
MaxLines == 2
MaxOps == 2

(***************************************************************************)
(* Values.                                                                 *)
(***************************************************************************)
Num(n) == [t |-> "num", n |-> n]
Str(s) == [t |-> "str", s |-> s]
List(xs) == [t |-> "list", xs |-> xs]
Map(kv) == [t |-> "map", kv |-> kv]
Oid(n) == [t |-> "oid", n |-> n]
None == [t |-> "none"]
Item(k, v) == [k |-> k, v |-> v]
Tup(xs) == [t |-> "seq", xs |-> xs]

K_id == <<95, 105, 100>>
K_md5 == <<109, 100, 53>>
K_sequence == <<115, 101, 113, 117, 101, 110, 99, 101>>
K_k == <<107>>
K_a == <<97>>
K_a1 == <<97, 49>>
K_1 == <<49>>

(***************************************************************************)
(* Python dict operations on a mapping.                                    *)
(***************************************************************************)
Keys(d) == {d.kv[i].k : i \in 1..Len(d.kv)}
Has(d, k) == k \in Keys(d)
Get(d, k) == d.kv[CHOOSE i \in 1..Len(d.kv) : d.kv[i].k = k].v
Del(d, k) == Map(SelectSeq(d.kv, LAMBDA it : it.k # k))
Put(d, k, v) ==
  IF Has(d, k)
  THEN Map([i \in 1..Len(d.kv) |-> IF d.kv[i].k = k THEN Item(k, v) ELSE d.kv[i]])
  ELSE Map(Append(d.kv, Item(k, v)))

(***************************************************************************)
(* str(): the string a token contributes to the hash.  A number gives its  *)
(* decimal digits, a string gives itself.                                  *)
(***************************************************************************)
RECURSIVE Digits(_)
Digits(n) == IF n < 10 THEN <<48 + n>> ELSE Digits(n \div 10) \o <<48 + (n % 10)>>

str(i) == IF i.t = "num" THEN Digits(i.n) ELSE i.s

(***************************************************************************)
(* The total order used to sort canonical forms: numbers before strings    *)
(* before composite values; numbers by value, strings and composites       *)
(* lexicographically.                                                      *)
(***************************************************************************)
Rank(x) == IF x.t = "num" THEN 0 ELSE IF x.t = "str" THEN 1 ELSE 2

RECURSIVE LexLess(_, _)
LexLess(s, u) ==
  IF s = <<>> THEN u # <<>>
  ELSE IF u = <<>> THEN FALSE
  ELSE IF Head(s) # Head(u) THEN Head(s) < Head(u)
  ELSE LexLess(Tail(s), Tail(u))

RECURSIVE Less(_, _)
RECURSIVE SeqLess(_, _)
Less(a, b) ==
  IF Rank(a) # Rank(b) THEN Rank(a) < Rank(b)
  ELSE IF a.t = "num" THEN a.n < b.n
  ELSE IF a.t = "str" THEN LexLess(a.s, b.s)
  ELSE SeqLess(a.xs, b.xs)
SeqLess(xs, ys) ==
  IF xs = <<>> THEN ys # <<>>
  ELSE IF ys = <<>> THEN FALSE
  ELSE IF Less(Head(xs), Head(ys)) THEN TRUE
  ELSE IF Less(Head(ys), Head(xs)) THEN FALSE
  ELSE SeqLess(Tail(xs), Tail(ys))

RECURSIVE InsertSorted(_, _)
InsertSorted(x, s) ==
  IF s = <<>> THEN <<x>>
  ELSE IF Less(x, Head(s)) THEN <<x>> \o s
  ELSE <<Head(s)>> \o InsertSorted(x, Tail(s))

RECURSIVE sorted(_)
sorted(xs) == IF xs = <<>> THEN <<>> ELSE InsertSorted(Head(xs), sorted(Tail(xs)))

(***************************************************************************)
(* ordered(): the canonical ordered form.  A mapping becomes the sorted    *)
(* sequence of its (key, ordered(value)) pairs, a sequence the sorted      *)
(* sequence of its ordered elements, a scalar itself.                      *)
(***************************************************************************)
RECURSIVE ordered(_)
ordered(obj) ==
  IF obj.t = "map"
  THEN Tup(sorted([i \in 1..Len(obj.kv) |->
                     Tup(<<Str(obj.kv[i].k), ordered(obj.kv[i].v)>>)]))
  ELSE IF obj.t = "list"
  THEN Tup(sorted([i \in 1..Len(obj.xs) |-> ordered(obj.xs[i])]))
  ELSE obj

(***************************************************************************)
(* flat(): the leaves of a canonical form, in traversal order.             *)
(***************************************************************************)
RECURSIVE flat(_)
RECURSIVE FlatAll(_)
flat(obj) == IF obj.t = "seq" THEN FlatAll(obj.xs) ELSE <<obj>>
FlatAll(xs) == IF xs = <<>> THEN <<>> ELSE flat(Head(xs)) \o FlatAll(Tail(xs))

(***************************************************************************)
(* hash_dict(): feed str(token) of every token to md5, return the digest. *)
(***************************************************************************)
RECURSIVE Update(_, _)
Update(h, f) == IF f = <<>> THEN h ELSE Update(h \o str(Head(f)), Tail(f))

RECURSIVE unordered(_)
unordered(obj) ==
  IF obj.t = "map"
  THEN Tup([i \in 1..Len(obj.kv) |->
              Tup(<<Str(obj.kv[i].k), unordered(obj.kv[i].v)>>)])
  ELSE IF obj.t = "list"
  THEN Tup([i \in 1..Len(obj.xs) |-> unordered(obj.xs[i])])
  ELSE obj

hash_dict_unordered(d) == Str(Update(<<>>, flat(unordered(d))))

hash_dict(d) == Str(Update(<<>>, flat(ordered(d))))

(***************************************************************************)
(* json.dumps(d, sort_keys=True): the keys of every mapping are written    *)
(* in sorted order.  json.loads gives the mapping back in file order.      *)
(***************************************************************************)
RECURSIVE InsertItem(_, _)
InsertItem(it, s) ==
  IF s = <<>> THEN <<it>>
  ELSE IF LexLess(it.k, Head(s).k) THEN <<it>> \o s
  ELSE <<Head(s)>> \o InsertItem(it, Tail(s))

RECURSIVE SortItems(_)
SortItems(kv) == IF kv = <<>> THEN <<>> ELSE InsertItem(Head(kv), SortItems(Tail(kv)))

RECURSIVE dumps(_)
dumps(v) ==
  IF v.t = "map"
  THEN Map(SortItems([i \in 1..Len(v.kv) |-> Item(v.kv[i].k, dumps(v.kv[i].v))]))
  ELSE IF v.t = "list"
  THEN List([i \in 1..Len(v.xs) |-> dumps(v.xs[i])])
  ELSE v

Line(d) == [ok |-> TRUE, d |-> d]
BadLine == [ok |-> FALSE]

(***************************************************************************)
(* deep_get(d, path): the value at a key path, None when it does not       *)
(* resolve.                                                                *)
(***************************************************************************)
RECURSIVE deep_get(_, _)
deep_get(d, path) ==
  IF path = <<>> THEN d
  ELSE IF d.t = "map" /\ Has(d, Head(path)) THEN deep_get(Get(d, Head(path)), Tail(path))
  ELSE None

(***************************************************************************)
(* The document store: one collection, documents in natural order, _id     *)
(* unique, and a set of key paths carrying a unique index.  A filter       *)
(* {path: None} matches the records where the path is missing, and a       *)
(* unique index counts a missing path as one more value; insert_one and    *)
(* find_one_and_replace raise DuplicateKeyError where Rejects and          *)
(* RejectsReplace hold.                                                    *)
(***************************************************************************)
IdOf(d) == Get(d, K_id)

Matches(doc, path, v) == deep_get(doc, path) = v

Found(st, path, v) == {i \in 1..Len(st) : Matches(st[i], path, v)}

find_one(st, path, v) ==
  IF Found(st, path, v) = {} THEN None
  ELSE st[CHOOSE i \in Found(st, path, v) : \A j \in Found(st, path, v) : i <= j]

Unique(st, path) ==
  \A i, j \in 1..Len(st) : deep_get(st[i], path) = deep_get(st[j], path) => i = j

RejectsOnIndex(st, ix, d) ==
  \E path \in ix : Found(st, path, deep_get(d, path)) # {}

Rejects(st, ix, d) ==
  \/ Found(st, <<K_id>>, IdOf(d)) # {}
  \/ \E path \in ix : Found(st, path, deep_get(d, path)) # {}

WithId(d, n) == IF Has(d, K_id) THEN d ELSE Put(d, K_id, Oid(n))

insert_one(st, d) == Append(st, d)

RejectsReplace(st, ix, d) ==
  \E path \in ix : \E i \in Found(st, path, deep_get(d, path)) : IdOf(st[i]) # IdOf(d)

find_one_and_replace(st, d) ==
  [i \in 1..Len(st) |->
     IF i = (CHOOSE j \in Found(st, <<K_id>>, IdOf(d)) :
               \A l \in Found(st, <<K_id>>, IdOf(d)) : j <= l)
     THEN d ELSE st[i]]

(***************************************************************************)
(* The reserved fields the code takes off a record before hashing it.      *)
(***************************************************************************)
ProjectionKeepsMd5(d) == IF d = None THEN None ELSE Del(d, K_id)

Projection(d) == IF d = None THEN None ELSE Del(Del(d, K_id), K_md5)

Popped(d) == Del(Del(d, K_id), K_md5)

Reattached(d) == Put(Put(Popped(d), K_md5, hash_dict(Popped(d))), K_id, IdOf(d))

(***************************************************************************)
(* State.                                                                  *)
(*   store, indexes   the cell and its unique indexes                      *)
(*   snapshot         the snapshot file on disk: the one commit writes     *)
(*                    (file + '.json') and pull, diff, add and init read;  *)
(*                    the content of a file the user supplies is drawn     *)
(*                    when a command first opens it                        *)
(*   diffout          the file diff writes                                 *)
(*   op, pc           the running command and its position                 *)
(*   file, pos        the lines (commit: the cursor) iterated, lines read  *)
(*   inserted, duplicates, nochange, replaced, counter   the tallies       *)
(*   primkey          add's --primkey                                      *)
(*   force            the value of --force handed to abort_if_false        *)
(*   err              the exception that ended the command                 *)
(*   fresh            the number of identifiers generated so far           *)
(*   nops, prev, store0, mut, cmps   history: commands started, the        *)
(*                    previous command, the store when the command         *)
(*                    started, the record edited in the store since, and   *)
(*                    the records pull has hashed in this run              *)
(*   origin           the store when the pull that was interrupted started *)
(*                    (kept while the command that follows it runs)        *)
(***************************************************************************)
VARIABLES store, indexes, snapshot, diffout, op, pc, file, pos,
          inserted, duplicates, nochange, replaced, counter, primkey, force,
          err, fresh, nops, prev, store0, mut, cmps, origin
VARIABLES ha, hb, hda, hdb, hpc

svars == <<store, indexes, snapshot, diffout, op, pc, file, pos,
           inserted, duplicates, nochange, replaced, counter, primkey, force,
           err, fresh, nops, prev, store0, mut, cmps, origin>>
hvars == <<ha, hb, hda, hdb, hpc>>
vars == <<svars, hvars>>

tallies == <<inserted, duplicates, nochange, replaced, counter>>

NoPrev == [op |-> "none", pc |-> "idle", mut |-> 0, err |-> "none", primkey |-> <<>>]
NoFile == [exists |-> FALSE, lines |-> <<>>]
OnDisk(f) == [exists |-> TRUE, lines |-> f]

SyncIdle ==
  /\ store = <<>> /\ indexes = {} /\ snapshot = NoFile /\ diffout = <<>>
  /\ op = "none" /\ pc = "idle" /\ file = <<>> /\ pos = 0
  /\ inserted = 0 /\ duplicates = 0 /\ nochange = 0 /\ replaced = 0 /\ counter = 0
  /\ primkey = <<>> /\ force = FALSE /\ err = "none" /\ fresh = 0 /\ nops = 0
  /\ prev = NoPrev /\ store0 = <<>> /\ mut = 0 /\ cmps = <<>> /\ origin = <<>>

HashIdle == ha = None /\ hb = None /\ hda = None /\ hdb = None /\ hpc = "off"

(***************************************************************************)
(* The cells and snapshot files the commands start from.                   *)
(***************************************************************************)
IdA == Str(<<120>>)
IdB == Str(<<121>>)
SeqA == Str(<<65>>)
KVals == {Num(1), Str(K_1)}
MutVals == KVals \cup {Num(2)}
Bodies == {<<>>} \cup {<<Item(K_sequence, SeqA), Item(K_k, v)>> : v \in KVals}
Md5s == {hash_dict(Map(b)) : b \in Bodies \ {<<>>}}
Docs(id) ==
  {Map(<<Item(K_id, id)>> \o b) : b \in Bodies}
    \cup {Map(<<Item(K_id, id)>> \o b \o <<Item(K_md5, m)>>) : b \in Bodies, m \in Md5s}
Cells ==
  {<<>>} \cup {<<d>> : d \in Docs(IdA)}
         \cup {<<d, e>> : d \in Docs(IdA), e \in Docs(IdB)}
SnapLines ==
  {Line(Map(<<Item(K_id, id), Item(K_md5, hash_dict(Map(b)))>> \o b)) :
     id \in {IdA, IdB}, b \in Bodies}
SnapFiles == UNION {[1..n -> SnapLines] : n \in 0..MaxLines}

(***************************************************************************)
(* A record with a sequence-valued field: the snapshot line holds k = [1], *)
(* the stored record holds k = [1, 1] under the md5 of the line.           *)
(***************************************************************************)
ListBody(xs) == <<Item(K_sequence, SeqA), Item(K_k, List(xs))>>
ListRecord(xs) ==
  Map(<<Item(K_id, IdA), Item(K_md5, hash_dict(Map(ListBody(<<Num(1)>>))))>> \o ListBody(xs))
ListLine == Line(ListRecord(<<Num(1)>>))
ListCell == <<ListRecord(<<Num(1), Num(1)>>)>>
DiffFiles == SnapFiles \cup {<<ListLine>>}

Init ==
  /\ store \in Cells \cup {ListCell}
  /\ indexes = {}
  /\ snapshot = NoFile /\ diffout = <<>>
  /\ op = "none" /\ pc = "idle" /\ file = <<>> /\ pos = 0
  /\ inserted = 0 /\ duplicates = 0 /\ nochange = 0 /\ replaced = 0 /\ counter = 0
  /\ primkey = <<>> /\ force = FALSE /\ err = "none" /\ fresh = 0 /\ nops = 0
  /\ prev = NoPrev /\ store0 = store /\ mut = 0 /\ cmps = <<>> /\ origin = <<>>
  /\ HashIdle

(***************************************************************************)
(* Starting and ending a command.                                          *)
(***************************************************************************)
Ready == pc \in {"idle", "done", "crashed"} /\ nops < MaxOps

BeginAs(o, f, p, e) ==
  /\ op' = o /\ file' = f /\ pc' = p /\ pos' = 0
  /\ inserted' = 0 /\ duplicates' = 0 /\ nochange' = 0 /\ replaced' = 0
  /\ counter' = 0 /\ err' = e /\ nops' = nops + 1
  /\ prev' = [op |-> op, pc |-> pc, mut |-> mut, err |-> err, primkey |-> primkey]
  /\ store0' = store /\ mut' = 0 /\ cmps' = <<>>
  /\ origin' = IF err = "Interrupted" THEN origin ELSE <<>>

Begin(o, f) == BeginAs(o, f, "loop", "none")

Open(o, files) ==
  /\ \E f \in (IF snapshot.exists THEN {snapshot.lines} ELSE files) :
       /\ Begin(o, f)
       /\ snapshot' = OnDisk(f)

Running(o) == op = o /\ pc = "loop" /\ pos < Len(file)

Raise(e) == pc' = "crashed" /\ err' = e

End(o) ==
  /\ op = o /\ pc = "loop" /\ pos = Len(file)
  /\ pc' = "done"
  /\ UNCHANGED <<store, indexes, snapshot, diffout, op, file, pos,
                 tallies, primkey, force, origin, err, fresh, nops, prev, store0, mut, cmps>>
  /\ UNCHANGED hvars

(***************************************************************************)
(* pull.  `not d_old` holds for a missing record and for a record whose    *)
(* projection is the empty mapping.                                        *)
(***************************************************************************)
StartPull ==
  /\ Ready
  /\ Open("pull", SnapFiles)
  /\ UNCHANGED <<store, indexes, diffout, primkey, force, fresh>>
  /\ UNCHANGED hvars

PullStep ==
  /\ Running("pull")
  /\ pos' = pos + 1
  /\ LET line == file[pos + 1] IN
     IF ~line.ok THEN
       /\ Raise("ValueError")
       /\ UNCHANGED <<store, tallies, cmps>>
     ELSE LET d_new == line.d IN
     IF ~Has(d_new, K_id) \/ ~Has(d_new, K_md5) THEN
       /\ Raise("KeyError")
       /\ UNCHANGED <<store, tallies, cmps>>
     ELSE LET _id_new == Get(d_new, K_id)
              md5_new == Get(d_new, K_md5)
              found == find_one(store, <<K_id>>, _id_new)
              d_old == Projection(found)
          IN
     IF d_old = None \/ d_old.kv = <<>> THEN
       IF Rejects(store, indexes, d_new) THEN
         /\ Raise("DuplicateKeyError")
         /\ UNCHANGED <<store, tallies, cmps>>
       ELSE
         /\ store' = insert_one(store, d_new)
         /\ inserted' = inserted + 1
         /\ counter' = counter + 1
         /\ UNCHANGED <<pc, err, duplicates, nochange, replaced, cmps>>
     ELSE LET md5_old == hash_dict(d_old) IN
       /\ cmps' = Append(cmps, [doc |-> found, md5 |-> md5_old])
       /\ IF md5_new = md5_old THEN
            /\ nochange' = nochange + 1
            /\ counter' = counter + 1
            /\ UNCHANGED <<store, pc, err, inserted, duplicates, replaced>>
          ELSE IF RejectsReplace(store, indexes, d_new) THEN
            /\ Raise("DuplicateKeyError")
            /\ UNCHANGED <<store, tallies>>
          ELSE
            /\ store' = find_one_and_replace(store, d_new)
            /\ replaced' = replaced + 1
            /\ counter' = counter + 1
            /\ UNCHANGED <<pc, err, inserted, duplicates, nochange>>
  /\ UNCHANGED <<indexes, snapshot, diffout, op, file, primkey, force, origin,
                 fresh, nops, prev, store0, mut>>
  /\ UNCHANGED hvars

PullEnd == End("pull")

(***************************************************************************)
(* pull stopped from outside (the process is killed, the connection or the *)
(* file fails) between two lines: what it has inserted and replaced stays. *)
(***************************************************************************)
PullInterrupt ==
  /\ op = "pull" /\ pc = "loop" /\ nops < MaxOps
  /\ Raise("Interrupted")
  /\ origin' = store0
  /\ UNCHANGED <<store, indexes, snapshot, diffout, op, file, pos, tallies,
                 primkey, force, fresh, nops, prev, store0, mut, cmps>>
  /\ UNCHANGED hvars

(***************************************************************************)
(* The store a whole pull of the lines f leaves when started from st, and  *)
(* whether that pull runs to its end.                                      *)
(***************************************************************************)
RECURSIVE PullAll(_, _, _)
PullAll(st, ix, f) ==
  IF f = <<>> THEN [ok |-> TRUE, store |-> st]
  ELSE LET line == Head(f) IN
    IF ~line.ok \/ ~Has(line.d, K_id) \/ ~Has(line.d, K_md5)
    THEN [ok |-> FALSE, store |-> st]
    ELSE LET d_new == line.d
             d_old == Projection(find_one(st, <<K_id>>, Get(d_new, K_id)))
         IN
      IF d_old = None \/ d_old.kv = <<>> THEN
        IF Rejects(st, ix, d_new) THEN [ok |-> FALSE, store |-> st]
        ELSE PullAll(insert_one(st, d_new), ix, Tail(f))
      ELSE IF Get(d_new, K_md5) = hash_dict(d_old) THEN PullAll(st, ix, Tail(f))
      ELSE IF RejectsReplace(st, ix, d_new) THEN [ok |-> FALSE, store |-> st]
      ELSE PullAll(find_one_and_replace(st, d_new), ix, Tail(f))

(***************************************************************************)
(* commit.  Each record read from the cursor is rehashed and written; an   *)
(* ObjectId does not serialise (TypeError before the write) and a record   *)
(* without a sequence field stops the run after its line is written        *)
(* (KeyError at d['sequence']).                                            *)
(***************************************************************************)
StartCommit ==
  /\ Ready
  /\ Begin("commit", store)
  /\ snapshot' = OnDisk(<<>>)
  /\ UNCHANGED <<store, indexes, diffout, primkey, force, fresh>>
  /\ UNCHANGED hvars

CommitWrites ==
  /\ Running("commit")
  /\ pos' = pos + 1
  /\ counter' = counter + 1
  /\ LET d == Reattached(file[pos + 1]) IN
     IF IdOf(d).t = "oid" THEN
       /\ Raise("TypeError")
       /\ UNCHANGED snapshot
     ELSE
       /\ snapshot' = OnDisk(Append(snapshot.lines, Line(dumps(d))))
       /\ IF Has(d, K_sequence)
          THEN UNCHANGED <<pc, err>>
          ELSE Raise("KeyError")
  /\ UNCHANGED <<indexes, diffout, op, file, inserted,
                 duplicates, nochange, replaced, primkey, force, origin, fresh, nops, prev,
                 store0, mut, cmps>>
  /\ UNCHANGED hvars

CommitStepSaves ==
  /\ CommitWrites
  /\ store' = find_one_and_replace(store, Reattached(file[pos + 1]))

CommitStep ==
  /\ CommitWrites
  /\ UNCHANGED store

CommitEnd == End("commit")

(***************************************************************************)
(* A record edited directly in the store after a commit: one field other   *)
(* than _id and md5 is given a different value.                            *)
(***************************************************************************)
Mutate ==
  /\ pc = "done" /\ op = "commit" /\ mut = 0 /\ nops < MaxOps
  /\ \E i \in 1..Len(store) : \E k \in Keys(Popped(store[i])) : \E v \in MutVals :
       /\ v # Get(store[i], k)
       /\ store' = [store EXCEPT ![i] = Put(@, k, v)]
       /\ mut' = i
  /\ UNCHANGED <<indexes, snapshot, diffout, op, pc, file, pos,
                 tallies, primkey, force, origin, err, fresh, nops, prev, store0, cmps>>
  /\ UNCHANGED hvars

(***************************************************************************)
(* diff.  DeepDiff(new, old, ignore_order=True) is empty when the two      *)
(* values are equal up to the order (and repetition) of sequence elements; *)
(* a number and a string are never equal.                                  *)
(***************************************************************************)
RECURSIVE DeepDiffEmpty(_, _)
DeepDiffEmpty(new, old) ==
  IF new.t = "map" /\ old.t = "map" THEN
    /\ Keys(new) = Keys(old)
    /\ \A k \in Keys(new) : DeepDiffEmpty(Get(new, k), Get(old, k))
  ELSE IF new.t = "list" /\ old.t = "list" THEN
    /\ \A i \in 1..Len(new.xs) : \E j \in 1..Len(old.xs) : DeepDiffEmpty(new.xs[i], old.xs[j])
    /\ \A j \in 1..Len(old.xs) : \E i \in 1..Len(new.xs) : DeepDiffEmpty(new.xs[i], old.xs[j])
  ELSE new = old

StartDiff ==
  /\ Ready
  /\ Open("diff", DiffFiles)
  /\ diffout' = <<>>
  /\ UNCHANGED <<store, indexes, primkey, force, fresh>>
  /\ UNCHANGED hvars

DiffStep ==
  /\ Running("diff")
  /\ pos' = pos + 1
  /\ LET line == file[pos + 1] IN
     IF ~line.ok THEN
       /\ Raise("ValueError")
       /\ UNCHANGED diffout
     ELSE LET old == line.d IN
     IF ~Has(old, K_id) THEN
       /\ Raise("KeyError")
       /\ UNCHANGED diffout
     ELSE LET _id == Get(old, K_id)
              new == find_one(store, <<K_id>>, _id)
          IN
       /\ diffout' = IF DeepDiffEmpty(new, old) THEN diffout
                     ELSE Append(diffout, [_id |-> _id, new |-> new, old |-> old])
       /\ UNCHANGED <<pc, err>>
  /\ UNCHANGED <<store, indexes, snapshot, op, file, tallies, primkey, force, origin, fresh,
                 nops, prev, store0, mut, cmps>>
  /\ UNCHANGED hvars

DiffEnd == End("diff")

Next ==
  \/ StartPull \/ PullStep \/ PullEnd \/ PullInterrupt
  \/ StartCommit \/ CommitStep \/ CommitEnd
  \/ StartDiff \/ DiffStep \/ DiffEnd
  \/ Mutate

Spec == Init /\ [][Next]_vars

(***************************************************************************)
(* add and init, started from a small cell that may carry the unique index *)
(* of an earlier add --primkey.                                            *)
(***************************************************************************)
PrimKeys == {<<K_id>>, <<K_k>>}

LoadDocs == {Map(<<Item(K_id, IdA)>> \o b) : b \in Bodies}
LoadCells == {<<>>} \cup {<<d>> : d \in LoadDocs}
LoadLines ==
  {BadLine} \cup {Line(Map(b)) : b \in Bodies}
            \cup {Line(Map(<<Item(K_id, id)>> \o b)) : id \in {IdA, IdB}, b \in Bodies}
LoadFiles == UNION {[1..n -> LoadLines] : n \in 0..MaxLines}

LoadInit ==
  /\ store \in LoadCells
  /\ indexes \in SUBSET {<<K_k>>}
  /\ snapshot = NoFile /\ diffout = <<>>
  /\ op = "none" /\ pc = "idle" /\ file = <<>> /\ pos = 0
  /\ inserted = 0 /\ duplicates = 0 /\ nochange = 0 /\ replaced = 0 /\ counter = 0
  /\ primkey = <<>> /\ force = FALSE /\ err = "none" /\ fresh = 0 /\ nops = 0
  /\ prev = NoPrev /\ store0 = store /\ mut = 0 /\ cmps = <<>> /\ origin = <<>>
  /\ HashIdle

Uuid(n) == Str(<<117>> \o Digits(n))

IsDuplicateById(st, key, d) == find_one(st, <<K_id>>, deep_get(d, <<K_id>>)) # None

IsDuplicate(st, key, d) == find_one(st, key, deep_get(d, key)) # None

StartAdd ==
  /\ Ready
  /\ \E key \in PrimKeys :
     \E f \in (IF snapshot.exists THEN {snapshot.lines} ELSE LoadFiles) :
       LET create == key # <<K_id>> /\ key \notin indexes
           fails == create /\ ~Unique(store, key)
       IN
         /\ BeginAs("add", f, IF fails THEN "crashed" ELSE "loop",
                    IF fails THEN "DuplicateKeyError" ELSE "none")
         /\ snapshot' = OnDisk(f)
         /\ primkey' = key
         /\ indexes' = IF create /\ ~fails THEN indexes \cup {key} ELSE indexes
  /\ UNCHANGED <<store, diffout, fresh, force>>
  /\ UNCHANGED hvars

AddStep ==
  /\ Running("add")
  /\ pos' = pos + 1
  /\ LET line == file[pos + 1] IN
     IF ~line.ok THEN
       /\ Raise("ValueError")
       /\ UNCHANGED <<store, fresh, tallies>>
     ELSE LET d == WithId(line.d, fresh)
              made == IF Has(line.d, K_id) THEN 0 ELSE 1
          IN
     IF primkey = <<K_id>> THEN
       IF Rejects(store, indexes, d) THEN
         /\ duplicates' = duplicates + 1
         /\ fresh' = fresh + made
         /\ UNCHANGED <<store, pc, err, inserted, nochange, replaced, counter>>
       ELSE
         /\ store' = insert_one(store, d)
         /\ inserted' = inserted + 1
         /\ fresh' = fresh + made
         /\ UNCHANGED <<pc, err, duplicates, nochange, replaced, counter>>
     ELSE
       IF IsDuplicate(store, primkey, line.d) THEN
         /\ duplicates' = duplicates + 1
         /\ UNCHANGED <<store, fresh, pc, err, inserted, nochange, replaced, counter>>
       ELSE IF Rejects(store, indexes, d) THEN
         /\ Raise("DuplicateKeyError")
         /\ fresh' = fresh + made
         /\ UNCHANGED <<store, tallies>>
       ELSE
         /\ store' = insert_one(store, d)
         /\ inserted' = inserted + 1
         /\ fresh' = fresh + made
         /\ UNCHANGED <<pc, err, duplicates, nochange, replaced, counter>>
  /\ UNCHANGED <<indexes, snapshot, diffout, op, file, primkey, force, origin, nops, prev,
                 store0, mut, cmps>>
  /\ UNCHANGED hvars

AddEnd == End("add")

StartInit ==
  /\ Ready
  /\ Open("init", LoadFiles)
  /\ UNCHANGED <<store, indexes, diffout, primkey, force, fresh>>
  /\ UNCHANGED hvars

InitStep ==
  /\ Running("init")
  /\ pos' = pos + 1
  /\ LET line == file[pos + 1] IN
     IF ~line.ok THEN
       /\ Raise("ValueError")
       /\ UNCHANGED <<store, fresh, tallies>>
     ELSE LET d == Put(line.d, K_id, Uuid(fresh)) IN
       /\ fresh' = fresh + 1
       /\ IF Rejects(store, indexes, d) THEN
            /\ Raise("DuplicateKeyError")
            /\ UNCHANGED <<store, tallies>>
          ELSE
            /\ store' = insert_one(store, d)
            /\ inserted' = inserted + 1
            /\ UNCHANGED <<pc, err, duplicates, nochange, replaced, counter>>
  /\ UNCHANGED <<indexes, snapshot, diffout, op, file, primkey, force, origin, nops, prev,
                 store0, mut, cmps>>
  /\ UNCHANGED hvars

InitEnd == End("init")

(***************************************************************************)
(* drop and destroy.  --force is a flag with a confirmation prompt: its    *)
(* value is TRUE when the flag is given or the prompt is answered yes and  *)
(* FALSE when the prompt is declined; the callback abort_if_false aborts   *)
(* the command before its body runs.  Dropping a collection or a database  *)
(* removes its records and its indexes and succeeds when there is nothing  *)
(* to remove.                                                              *)
(***************************************************************************)
abort_never(value) == FALSE

abort_if_false(value) == ~value

Destructive(o) ==
  /\ Ready
  /\ \E value \in BOOLEAN :
       /\ force' = value
       /\ IF abort_if_false(value) THEN
            /\ BeginAs(o, <<>>, "crashed", "Abort")
            /\ UNCHANGED <<store, indexes>>
          ELSE
            /\ BeginAs(o, <<>>, "done", "none")
            /\ store' = <<>>
            /\ indexes' = {}
  /\ UNCHANGED <<snapshot, diffout, primkey, fresh>>
  /\ UNCHANGED hvars

Drop == Destructive("drop")

Destroy == Destructive("destroy")

LoadNext ==
  \/ StartAdd \/ AddStep \/ AddEnd
  \/ StartInit \/ InitStep \/ InitEnd
  \/ Drop \/ Destroy

SpecLoad == LoadInit /\ [][LoadNext]_vars

(***************************************************************************)
(* The digest on its own: hash_dict applied to two bounded records.        *)
(***************************************************************************)

HScalars == {Num(1), Str(K_1)}
HLists == {List(xs) : xs \in UNION {[1..n -> HScalars] : n \in 1..MaxListLen}}
HMaps == {Map(<<Item(K_1, v)>>) : v \in HScalars}
HValues == HScalars \cup HLists \cup HMaps
HKeys == {K_a, K_a1}
HRecords ==
  {Map(<<>>)}
    \cup {Map(<<Item(k, v)>>) : k \in HKeys, v \in HValues}
    \cup {Map(<<Item(k[1], v[1]), Item(k[2], v[2])>>) :
            k \in {q \in HKeys \X HKeys : q[1] # q[2]}, v \in HValues \X HValues}

HashInit == /\ ha \in HRecords
            /\ hb \in HRecords
            /\ hda = None
            /\ hdb = None
            /\ hpc = "input"
            /\ SyncIdle

HashPair == /\ hpc = "input"
            /\ hda' = hash_dict(ha)
            /\ hdb' = hash_dict(hb)
            /\ hpc' = "hashed"
            /\ UNCHANGED <<ha, hb>>
            /\ UNCHANGED svars

SpecHash == HashInit /\ [][HashPair]_vars

(***************************************************************************)
(* Two values are semantically equal when they are equal up to the order   *)
(* of mapping keys and of sequence elements.                               *)
(***************************************************************************)
RECURSIVE SemEq(_, _)
SemEq(a, b) ==
  IF a.t = "map" /\ b.t = "map" THEN
    /\ Keys(a) = Keys(b)
    /\ \A k \in Keys(a) : SemEq(Get(a, k), Get(b, k))
  ELSE IF a.t = "list" /\ b.t = "list" THEN
    /\ Len(a.xs) = Len(b.xs)
    /\ \E p \in Permutations(1..Len(a.xs)) :
         \A i \in 1..Len(a.xs) : SemEq(a.xs[i], b.xs[p[i]])
  ELSE a = b

Stripped(d) == Map(SelectSeq(d.kv, LAMBDA it : it.k \notin {K_id, K_md5}))

Ended == pc \in {"done", "crashed"}

(***************************************************************************)
(* C1  Pull idempotence: a pull that follows a completed pull of the same  *)
(* snapshot ends with replaced = 0, inserted = 0 and unchanged = N.        *)
(***************************************************************************)
C1_PullIdempotent ==
  (op = "pull" /\ prev.op = "pull" /\ prev.pc = "done" /\ Ended)
    => (pc = "done" /\ replaced = 0 /\ inserted = 0 /\ nochange = Len(file))

(***************************************************************************)
(* C2  Commit/pull round trip: commit, then pull of the snapshot it wrote  *)
(* into the unmodified cell, classifies every record of the cell as        *)
(* unchanged and leaves the store as it was.                               *)
(***************************************************************************)
C2_RoundTrip ==
  (op = "pull" /\ prev.op = "commit" /\ prev.mut = 0 /\ Ended)
    => /\ pc = "done"
       /\ replaced = 0 /\ inserted = 0
       /\ nochange = Len(store0)
       /\ store = store0

(***************************************************************************)
(* C3  Change detection: after a completed commit and an edit of one field *)
(* of one stored record to a different value, pull of the snapshot reports *)
(* replaced = 1 and unchanged = N - 1.                                     *)
(***************************************************************************)
C3_ChangeDetected ==
  (op = "pull" /\ prev.op = "commit" /\ prev.pc = "done" /\ prev.mut # 0 /\ Ended)
    => (pc = "done" /\ replaced = 1 /\ nochange = Len(file) - 1)

(***************************************************************************)
(* C4  Order independence: two records that are equal up to the order of   *)
(* mapping keys and sequence elements, at any depth, get the same digest,  *)
(* and hash_dict returns a digest for each of them.                        *)
(***************************************************************************)
C4_OrderIndependent ==
  (hpc = "hashed" /\ SemEq(ha, hb)) => (hda.t = "str" /\ hdb.t = "str" /\ hda = hdb)

C4_Witness ==
  /\ hpc = "hashed"
  /\ ha = Map(<<Item(K_a, List(<<Num(1), Str(K_1)>>)), Item(K_a1, Map(<<Item(K_1, Num(1))>>))>>)
  /\ hb = Map(<<Item(K_a1, Map(<<Item(K_1, Num(1))>>)), Item(K_a, List(<<Str(K_1), Num(1)>>))>>)
  /\ hda = hdb

(***************************************************************************)
(* C5  Digest equality coincides with semantic equality: two records have  *)
(* equal digests if and only if they are equal up to the order of mapping  *)
(* keys and sequence elements.                                             *)
(***************************************************************************)
C5_DigestIffEqual ==
  hpc = "hashed" => ((hda = hdb) <=> SemEq(ha, hb))

(***************************************************************************)
(* C6  Exclusion: two stored records that differ only in _id and/or md5    *)
(* get the same md5 written by commit and the same fresh digest in pull's  *)
(* comparison.                                                             *)
(***************************************************************************)
C6_Exclusion ==
  /\ op = "commit" =>
       \A i, j \in 1..Len(snapshot.lines) :
         Stripped(file[i]) = Stripped(file[j])
           => Get(snapshot.lines[i].d, K_md5) = Get(snapshot.lines[j].d, K_md5)
  /\ \A i, j \in 1..Len(cmps) :
       Stripped(cmps[i].doc) = Stripped(cmps[j].doc) => cmps[i].md5 = cmps[j].md5

C6_Witness ==
  /\ op = "pull" /\ pc = "done" /\ prev.op = "commit" /\ prev.pc = "done"
  /\ Len(cmps) = 2
  /\ Stripped(cmps[1].doc) = Stripped(cmps[2].doc)
  /\ IdOf(cmps[1].doc) # IdOf(cmps[2].doc)
  /\ Has(cmps[1].doc, K_md5) # Has(cmps[2].doc, K_md5)
  /\ Get(snapshot.lines[1].d, K_md5) = Get(snapshot.lines[2].d, K_md5)

(***************************************************************************)
(* C7  Tally completeness: at every point of an add or a pull, and when it *)
(* has ended, the counts sum to the number of lines consumed; a line that  *)
(* does not parse aside, no line is consumed without being counted.        *)
(***************************************************************************)
C7_TallyComplete ==
  /\ (op = "add" /\ err # "ValueError") => inserted + duplicates = pos
  /\ (op = "pull" /\ err # "ValueError") => inserted + replaced + nochange = pos

(***************************************************************************)
(* C8  Add deduplication: a line whose record has, at the configured       *)
(* primkey, the value some stored record has there is not inserted, is     *)
(* counted as one duplicate, and leaves the store as it was.               *)
(***************************************************************************)
C8_Case ==
  /\ Running("add")
  /\ file[pos + 1].ok
  /\ deep_get(file[pos + 1].d, primkey) # None
  /\ \E i \in 1..Len(store) :
       deep_get(store[i], primkey) = deep_get(file[pos + 1].d, primkey)

C8_AddDedup ==
  [][C8_Case => /\ duplicates' = duplicates + 1
                /\ inserted' = inserted
                /\ store' = store
                /\ pc' = "loop"]_vars

C8_Witness ==
  /\ op = "add" /\ primkey = <<K_k>> /\ pos = 1 /\ duplicates = 1
  /\ store = store0 /\ Len(store) = 1
  /\ file[1].ok
  /\ deep_get(file[1].d, primkey) = deep_get(store[1], primkey)
  /\ deep_get(file[1].d, primkey) # None
  /\ deep_get(file[1].d, <<K_id>>) # IdOf(store[1])

(***************************************************************************)
(* C9  A duplicate-key violation raised by the store's insert during add   *)
(* or init never ends the command: it is recovered and counted.            *)
(***************************************************************************)
C9_DuplicateRecovered ==
  ~(op \in {"add", "init"} /\ pc = "crashed" /\ err = "DuplicateKeyError" /\ pos > 0)

(***************************************************************************)
(* C10  Commit and diff are read-only on the store: while either runs and  *)
(* after it has ended, the store is what it was when the command started.  *)
(***************************************************************************)
C10_ReadOnly ==
  (op \in {"commit", "diff"} /\ mut = 0) => store = store0

C10_Witness ==
  /\ op = "diff" /\ pc = "done" /\ prev.op = "commit" /\ prev.pc = "done"
  /\ Len(file) = 2 /\ Len(store) = 2
  /\ \E i \in 1..2 : ~Has(store[i], K_md5) /\ Has(snapshot.lines[i].d, K_md5)
  /\ diffout # <<>>
  /\ store = store0

(***************************************************************************)
(* C11  Diff output: for a snapshot line whose record carries an _id, diff *)
(* writes exactly one entry, tagged with that _id, when the live record    *)
(* fetched by _id is not equal to the snapshot record up to the order of   *)
(* mapping keys and sequence elements (a record absent from the store      *)
(* included), writes no entry when the two are equal, and goes on.         *)
(***************************************************************************)
C11_Case == Running("diff") /\ file[pos + 1].ok /\ Has(file[pos + 1].d, K_id)

C11_DiffOutput ==
  [][C11_Case =>
       LET old == file[pos + 1].d
           new == find_one(store, <<K_id>>, Get(old, K_id))
       IN /\ pc' = "loop"
          /\ IF SemEq(new, old)
             THEN diffout' = diffout
             ELSE /\ Len(diffout') = Len(diffout) + 1
                  /\ SubSeq(diffout', 1, Len(diffout)) = diffout
                  /\ diffout'[Len(diffout')]._id = Get(old, K_id)]_vars

(***************************************************************************)
(* C12  Destructive operations: a drop or destroy whose confirmation is    *)
(* declined aborts and leaves the store and its indexes as they were; one  *)
(* that is confirmed or forced completes, whether or not the cell held     *)
(* anything, and leaves no record in it.                                   *)
(***************************************************************************)
C12_Destructive ==
  op \in {"drop", "destroy"} =>
    IF force
    THEN pc = "done" /\ err = "none" /\ store = <<>>
    ELSE pc = "crashed" /\ err = "Abort" /\ store = store0

C12_Witness ==
  /\ op = "drop" /\ force /\ pc = "done"
  /\ prev.op = "destroy" /\ prev.pc = "crashed" /\ prev.err = "Abort"
  /\ store0 # <<>> /\ store = <<>>

(***************************************************************************)
(* C13  Lookup precedes insert: when the store holds a record with the     *)
(* _id of the incoming line, whatever fields that record has, pull makes   *)
(* no insert attempt: the store gains no record and no duplicate-key       *)
(* violation is raised.                                                    *)
(***************************************************************************)
C13_Case ==
  /\ Running("pull")
  /\ file[pos + 1].ok
  /\ Has(file[pos + 1].d, K_id) /\ Has(file[pos + 1].d, K_md5)
  /\ Found(store, <<K_id>>, Get(file[pos + 1].d, K_id)) # {}

C13_LookupPrecedesInsert ==
  [][C13_Case => (Len(store') = Len(store) /\ err' # "DuplicateKeyError")]_vars

(***************************************************************************)
(* C14  Safe re-run: when a pull is interrupted after some prefix of the   *)
(* lines and pull is run again on the same snapshot, the second run        *)
(* completes and leaves the store an uninterrupted pull from the original  *)
(* state leaves.                                                           *)
(***************************************************************************)
C14_Case ==
  /\ op = "pull" /\ prev.op = "pull" /\ prev.err = "Interrupted"
  /\ Ended /\ err # "Interrupted"
  /\ PullAll(origin, indexes, file).ok

C14_SafeRerun ==
  C14_Case => (pc = "done" /\ store = PullAll(origin, indexes, file).store)

(***************************************************************************)
(* C15  Whole-record reconciliation: after pull's step on a line with id i *)
(* the store holds at i either the incoming record in full (counted        *)
(* inserted when the store had no record at i, replaced when it had) or    *)
(* the prior record untouched, its fresh digest being the incoming md5     *)
(* (counted unchanged); and no record with another id is modified or       *)
(* removed.                                                                *)
(***************************************************************************)
C15_Case ==
  /\ Running("pull")
  /\ file[pos + 1].ok
  /\ Has(file[pos + 1].d, K_id) /\ Has(file[pos + 1].d, K_md5)

C15_WholeRecord ==
  [][(C15_Case /\ pos' = pos + 1) =>
       LET d_new == file[pos + 1].d
           i == Get(d_new, K_id)
           prior == find_one(store, <<K_id>>, i)
           after == find_one(store', <<K_id>>, i)
       IN /\ Len(store') >= Len(store)
          /\ \A j \in 1..Len(store) : IdOf(store[j]) # i => store'[j] = store[j]
          /\ \/ /\ after = d_new /\ prior = None
                /\ Len(store') = Len(store) + 1
                /\ inserted' = inserted + 1
                /\ replaced' = replaced /\ nochange' = nochange
             \/ /\ after = d_new /\ prior # None
                /\ Len(store') = Len(store)
                /\ replaced' = replaced + 1
                /\ inserted' = inserted /\ nochange' = nochange
             \/ /\ store' = store /\ prior # None
                /\ hash_dict(Projection(prior)) = Get(d_new, K_md5)
                /\ nochange' = nochange + 1
                /\ inserted' = inserted /\ replaced' = replaced]_vars

(***************************************************************************)
(* C16  Commit completeness: commit runs to completion on every cell, and  *)
(* when it has ended the snapshot holds one line per record of the cell,   *)
(* in order, each with the record's _id, its other fields unchanged and    *)
(* the md5 of the record without _id and md5.                              *)
(***************************************************************************)
C16_CommitComplete ==
  (op = "commit" /\ Ended) =>
     /\ pc = "done"
     /\ Len(snapshot.lines) = Len(store0)
     /\ \A i \in 1..Len(store0) :
          LET w == snapshot.lines[i].d IN
            /\ Get(w, K_id) = IdOf(store0[i])
            /\ SemEq(Stripped(w), Stripped(store0[i]))
            /\ Get(w, K_md5) = hash_dict(Stripped(store0[i]))

(***************************************************************************)
(* C17  Unresolved primkey path: in add with a primkey other than _id, a   *)
(* line whose record has no value at the primkey path is inserted and is   *)
(* not counted as a duplicate, whatever the cell holds.                    *)
(***************************************************************************)
C17_Case ==
  /\ Running("add")
  /\ primkey # <<K_id>>
  /\ file[pos + 1].ok
  /\ deep_get(file[pos + 1].d, primkey) = None

C17_MissingPathInserted ==
  [][C17_Case => /\ inserted' = inserted + 1
                 /\ duplicates' = duplicates
                 /\ Len(store') = Len(store) + 1
                 /\ pc' = "loop"]_vars

(***************************************************************************)
(* C18  Parse failure in init: when line k is the first line of the        *)
(* snapshot that does not parse, init ends at line k with the parse error, *)
(* the cell holds what it held before followed by the records of lines     *)
(* 1..k-1, each under a fresh _id that differs from every other _id in the *)
(* cell and from the _id of its line, and nothing else is inserted.        *)
(***************************************************************************)
FirstBad(f) == CHOOSE k \in 1..Len(f) : ~f[k].ok /\ \A j \in 1..(k - 1) : f[j].ok

C18_InitParseFailure ==
  (op = "init" /\ Ended /\ \E k \in 1..Len(file) : ~file[k].ok) =>
     LET k == FirstBad(file)
         n == Len(store0)
     IN /\ pc = "crashed" /\ err = "ValueError" /\ pos = k
        /\ inserted = k - 1
        /\ Len(store) = n + k - 1
        /\ SubSeq(store, 1, n) = store0
        /\ \A j \in 1..(k - 1) :
             /\ SemEq(Del(store[n + j], K_id), Del(file[j].d, K_id))
             /\ Has(file[j].d, K_id) => IdOf(store[n + j]) # Get(file[j].d, K_id)
        /\ \A i, j \in 1..Len(store) : IdOf(store[i]) = IdOf(store[j]) => i = j

(***************************************************************************)
(* C19  Add idempotence under the default key: an add with primkey _id     *)
(* that follows a completed add of the same snapshot with primkey _id      *)
(* completes with inserted = 0 and duplicates = N and leaves the cell as   *)
(* the first run left it, whether or not the records carry an _id.         *)
(***************************************************************************)
C19_AddIdempotent ==
  (/\ op = "add" /\ primkey = <<K_id>> /\ Ended
   /\ prev.op = "add" /\ prev.primkey = <<K_id>> /\ prev.pc = "done")
    => /\ pc = "done"
       /\ inserted = 0
       /\ duplicates = Len(file)
       /\ store = store0

(***************************************************************************)
(* C19 (amended)  Add idempotence under the default key for snapshots      *)
(* whose records all carry an _id: an add with primkey _id that follows a  *)
(* completed add of the same snapshot with primkey _id completes with      *)
(* inserted = 0 and duplicates = N and leaves the cell as the first run    *)
(* left it.                                                                *)
(***************************************************************************)
C19_AddIdempotentWithId ==
  (/\ op = "add" /\ primkey = <<K_id>> /\ Ended
   /\ prev.op = "add" /\ prev.primkey = <<K_id>> /\ prev.pc = "done"
   /\ \A q \in 1..Len(file) : file[q].ok /\ Has(file[q].d, K_id))
    => /\ pc = "done"
       /\ inserted = 0
       /\ duplicates = Len(file)
       /\ store = store0

C19_Witness ==
  /\ op = "add" /\ primkey = <<K_id>> /\ pc = "done"
  /\ prev.op = "add" /\ prev.primkey = <<K_id>> /\ prev.pc = "done"
  /\ Len(file) = 2
  /\ \A q \in 1..2 : file[q].ok /\ Has(file[q].d, K_id)
  /\ \E i \in 1..Len(store) : IdOf(store[i]) = IdB
  /\ inserted = 0 /\ duplicates = 2 /\ store = store0
====
